---- MODULE Spec2Model ----
(***************************************************************************)
(* Wedding List Organiser: the domain/persistence model of model.py        *)
(* (Product, GiftItem, WeddingList) and the request handlers of            *)
(* wedding_lister.py that drive it against the sqlite3 store.              *)
(*                                                                         *)
(* The store is two tables, each a sequence of rows in rowid order.        *)
(* Every request runs on its own connection; each SELECT and each          *)
(* UPDATE/INSERT/DELETE + commit is one atomic step of the store, and the  *)
(* local computation between two statements is folded into the step of the *)
(* statement that follows it.                                              *)
(***************************************************************************)
EXTENDS Integers, Sequences, FiniteSets, TLC

\* ------------------------------------------------------------------ bounds
NumProducts == 2      \* rows of the products table after bootstrap
MaxStock == 1         \* largest initial in_stock_quantity of a catalogue entry
MaxGifts == 2         \* wedding_gift rows ever inserted
NumProcs == 2         \* requests in flight at the same time
MaxObjs == 2          \* GiftItem objects a library caller loads besides its list
MaxLen == 3           \* members a library caller appends to its WeddingList
MaxFlag == 2          \* largest purchased value of a row of an existing database file
MaxWhole == 2         \* most digits before the point of a catalogue price string
MaxFrac == 3          \* most digits after the point of a catalogue price string
MaxUnits == 2         \* in_stock_quantity of the catalogue entries of the
                      \* store that one caller works on

ProductIds == 1..NumProducts
GiftIds == 1..MaxGifts
Procs == 1..NumProcs

VARIABLES
    products,       \* table products: rows [rowid, name, brand, price,
                    \*                        in_stock_quantity]
    wedding_gift,   \* table wedding_gift: rows [rowid, product_id, purchased]
    next_rowid,     \* the rowid the next INSERT INTO wedding_gift is given
    pc,             \* per request: position in its handler
    req,            \* per request: the route and its arguments
    rows,           \* per request: fetched wedding_gift rows not yet resolved
    objs,           \* per request: the GiftItem objects it created, by object id
    wl,             \* per request: its WeddingList, a sequence of object ids
    product,        \* per request: the Product held by add_to_wedding_list
    result,         \* per request: outcome of the handler
    resp,           \* per request: the JSON body it returns
    tables,         \* the names of the tables of the database file
    catalogue,      \* products.json: the product descriptions, in file order
    gift_repo,      \* what get_example_gift_repository gave init_db
    stock0,         \* history: in_stock_quantity of every product after bootstrap
    sold,           \* history: successful Product.purchase() calls per product
    decremented,    \* history: gift identities whose purchase committed a stock UPDATE
    removed         \* history: gift identities whose DELETE was committed

store == <<products, wedding_gift, next_rowid>>
boot == <<tables, catalogue, gift_repo>>
history == <<stock0, sold, decremented, removed>>
vars == <<products, wedding_gift, next_rowid, pc, req, rows, objs, wl,
          product, result, resp, tables, catalogue, gift_repo,
          stock0, sold, decremented, removed>>

\* ------------------------------------------------------------- exceptions
OutOfStock == "OutOfStock"
UnknownProduct == "UnknownProduct"
BadRequest == "BadRequest"
StoreError == "StoreError"

NoRequest == [op |-> "none"]
NoProduct == [product_id |-> 0, in_stock_quantity |-> 0]
NoResponse == [kind |-> "none"]

\* ------------------------------------------------------------ model.py
\* A str is the sequence of its characters; a dict is a record, the empty
\* dict the record without fields.
EmptyDict == <<>>

\* \d
Digits == {"0", "1", "2", "3", "4", "5", "6", "7", "8", "9"}

DigitValue(c) ==
    CHOOSE v \in 0..9 :
        <<"0", "1", "2", "3", "4", "5", "6", "7", "8", "9">>[v + 1] = c

\* int(str) of a string of decimal digits.
RECURSIVE int(_)
int(str) ==
    IF str = <<>> THEN 0
    ELSE int(SubSeq(str, 1, Len(str) - 1)) * 10 + DigitValue(str[Len(str)])

\* The length of the longest run of digits of str that starts at position i.
DigitRun(str, i) ==
    CHOOSE n \in 0..(Len(str) - i + 1) :
        /\ \A k \in i..(i + n - 1) : str[k] \in Digits
        /\ i + n <= Len(str) => str[i + n] \notin Digits

\* re.compile(r'(\d+)\.(\d+)GBP').match(str): the pattern is tried at the
\* start of str and need not reach its end.  Each \d+ takes the whole run of
\* digits it starts in, because what follows it in the pattern is not a
\* digit.
price_re_match(str) ==
    LET whole == DigitRun(str, 1)
        point == whole + 1
        fractional == DigitRun(str, point + 1)
        currency == point + fractional + 1
    IN  IF /\ whole >= 1
           /\ point <= Len(str) /\ str[point] = "."
           /\ fractional >= 1
           /\ currency + 2 <= Len(str)
           /\ SubSeq(str, currency, currency + 2) = <<"G", "B", "P">>
        THEN [matched |-> TRUE,
              groups |-> <<SubSeq(str, 1, whole),
                           SubSeq(str, point + 1, point + fractional)>>]
        ELSE [matched |-> FALSE, groups |-> <<>>]

\* Product.__init__, the exception it raises ("none" when it returns): a
\* missing key, the missing price, or price_match being None.
Product_raises(from_dict) ==
    IF from_dict = EmptyDict THEN "none"
    ELSE IF {"id", "name", "brand"} \ DOMAIN from_dict # {} THEN "KeyError"
    ELSE IF /\ "int_price" \notin DOMAIN from_dict
            /\ "price" \in DOMAIN from_dict
            /\ ~price_re_match(from_dict.price).matched THEN "AttributeError"
    ELSE IF {"int_price", "price"} \cap DOMAIN from_dict = {} THEN "Exception"
    ELSE IF "in_stock_quantity" \notin DOMAIN from_dict THEN "KeyError"
    ELSE "none"

\* Mutant of Product: the digits after the point are left out of the price.
Product_without_pence(from_dict) ==
    IF from_dict = EmptyDict THEN EmptyDict
    ELSE [product_id |-> from_dict.id,
          name |-> from_dict.name,
          brand |-> from_dict.brand,
          price |->
            IF "int_price" \in DOMAIN from_dict
            THEN from_dict.int_price
            ELSE int(price_re_match(from_dict.price).groups[1]) * 100,
          in_stock_quantity |-> from_dict.in_stock_quantity]

\* Product.__init__, the object it returns: without a description no
\* attribute is set; int_price is kept as it is, a price string is parsed.
Product(from_dict) ==
    IF from_dict = EmptyDict THEN EmptyDict
    ELSE [product_id |-> from_dict.id,
          name |-> from_dict.name,
          brand |-> from_dict.brand,
          price |->
            IF "int_price" \in DOMAIN from_dict
            THEN from_dict.int_price
            ELSE LET price_match == price_re_match(from_dict.price)
                 IN  int(price_match.groups[1]) * 100
                        + int(price_match.groups[2]),
          in_stock_quantity |-> from_dict.in_stock_quantity]

\* Product.get_example_gift_repository: one Product per description of the
\* file, in file order; the first construction that raises ends the call.
get_example_gift_repository(repo_file) ==
    LET raised == SelectSeq([i \in 1..Len(repo_file) |->
                                Product_raises(repo_file[i])],
                            LAMBDA e: e # "none")
    IN  IF raised # <<>>
        THEN [raised |-> raised[1], products |-> <<>>]
        ELSE [raised |-> "none",
              products |-> [i \in 1..Len(repo_file) |-> Product(repo_file[i])]]

\* Product.get_gift_repository: SELECT rowid, name, brand, price,
\* in_stock_quantity FROM products, one Product per row, in row order.
get_gift_repository(prods) ==
    [i \in 1..Len(prods) |->
        Product([id |-> prods[i].rowid,
                 name |-> prods[i].name,
                 brand |-> prods[i].brand,
                 int_price |-> prods[i].price,
                 in_stock_quantity |-> prods[i].in_stock_quantity])]

\* Mutant of get_product_by_id: an unknown id falls back to the first Product
\* of the repository.
get_product_by_id_or_first(prods, product_id) ==
    LET repo == get_gift_repository(prods)
        found == SelectSeq(repo, LAMBDA p: p.product_id = product_id)
    IN  IF found = <<>>
        THEN [raised |-> "none", product |-> repo[1]]
        ELSE [raised |-> "none", product |-> found[1]]

\* Product.get_product_by_id: first Product of the repository with that id;
\* UnknownProduct is raised when there is none.
get_product_by_id(prods, product_id) ==
    LET found == SelectSeq(get_gift_repository(prods),
                           LAMBDA p: p.product_id = product_id)
    IN  IF found = <<>>
        THEN [raised |-> UnknownProduct, product |-> NoProduct]
        ELSE [raised |-> "none", product |-> found[1]]

\* Mutant of UpdateStock: the UPDATE is never committed.
UpdateStock_uncommitted(prods, product_id, quantity) == prods

\* UPDATE products SET in_stock_quantity = ? WHERE rowid = ?
UpdateStock(prods, product_id, quantity) ==
    [i \in 1..Len(prods) |->
        IF prods[i].rowid = product_id
        THEN [prods[i] EXCEPT !.in_stock_quantity = quantity]
        ELSE prods[i]]

\* The stored in_stock_quantity of every product, by product id.
Stock(prods) ==
    [i \in {prods[k].rowid : k \in 1..Len(prods)} |->
        prods[CHOOSE k \in 1..Len(prods) : prods[k].rowid = i].in_stock_quantity]

\* Mutant of InStock: the test lets a product with no stock through.
InStock_or_empty(prod) == prod.in_stock_quantity >= 0

\* The test of Product.purchase: the product can be bought.
InStock(prod) == prod.in_stock_quantity > 0

\* The in-memory effect of a successful Product.purchase.
Decremented(prod) ==
    [prod EXCEPT !.in_stock_quantity = prod.in_stock_quantity - 1]

\* Product.purchase on the object prod against the table prods: the object
\* and the table afterwards, and whether OutOfStock was raised.
Product_purchase(prod, prods) ==
    IF InStock(prod)
    THEN [raised |-> "none",
          prod |-> Decremented(prod),
          products |-> UpdateStock(prods, prod.product_id,
                                   Decremented(prod).in_stock_quantity)]
    ELSE [raised |-> OutOfStock, prod |-> prod, products |-> prods]

\* Product.to_json
Product_to_json(prod) ==
    [id |-> prod.product_id,
     name |-> prod.name,
     brand |-> prod.brand,
     price |-> prod.price,
     in_stock_quantity |-> prod.in_stock_quantity]

\* GiftItem.__init__
GiftItem(gift_id, prod, purchased) ==
    [gift_id |-> gift_id, product |-> prod, purchased |-> purchased]

\* Mutant of UpdatePurchased: the UPDATE flips the flag instead of setting it.
UpdatePurchased_toggle(gifts, gift_id) ==
    [i \in 1..Len(gifts) |->
        IF gifts[i].rowid = gift_id
        THEN [gifts[i] EXCEPT !.purchased = 1 - gifts[i].purchased]
        ELSE gifts[i]]

\* UPDATE wedding_gift SET purchased = 1 WHERE rowid = ?
UpdatePurchased(gifts, gift_id) ==
    [i \in 1..Len(gifts) |->
        IF gifts[i].rowid = gift_id
        THEN [gifts[i] EXCEPT !.purchased = 1]
        ELSE gifts[i]]

\* Mutant of DeleteRow: the DELETE matches no row.
DeleteRow_nothing(gifts, gift_id) == gifts

\* DELETE FROM wedding_gift WHERE rowid = ?
DeleteRow(gifts, gift_id) ==
    SelectSeq(gifts, LAMBDA r: r.rowid # gift_id)

\* Mutant of InsertGift: the two values are bound to the wrong columns.
InsertGift_swapped(gifts, rowid, product_id) ==
    Append(gifts, [rowid |-> rowid, product_id |-> 0, purchased |-> product_id])

\* INSERT INTO wedding_gift (product_id, purchased) VALUES (?, 0)
InsertGift(gifts, rowid, product_id) ==
    Append(gifts, [rowid |-> rowid, product_id |-> product_id, purchased |-> 0])

\* cur.lastrowid after the INSERT: the store hands out a stable identity
\* that it has not handed out before.
lastrowid(next) == next

\* GiftItem.to_json
GiftItem_to_json(gift) ==
    [id |-> gift.gift_id,
     product |-> Product_to_json(gift.product),
     purchased |-> gift.purchased]

\* Mutant of GiftOfRow: purchased is gift[2] == 1.
GiftOfRow_flag_is_one(prods, row) ==
    LET got == get_product_by_id(prods, row.product_id)
    IN  [raised |-> got.raised,
         gift |-> GiftItem(row.rowid, got.product, row.purchased = 1)]

\* The GiftItem built by WeddingList.get_wedding_gifts for one fetched row.
GiftOfRow(prods, row) ==
    LET got == get_product_by_id(prods, row.product_id)
    IN  [raised |-> got.raised,
         gift |-> GiftItem(row.rowid, got.product, row.purchased > 0)]

\* WeddingList.get_purchased_gift / get_non_purchased_gift over a list of
\* object ids whose objects live in heap.
get_purchased_gift(heap, list) ==
    SelectSeq(list, LAMBDA o: heap[o].purchased)

\* Mutant of get_non_purchased_gift: the filter is missing.
get_non_purchased_gift_unfiltered(heap, list) == list

get_non_purchased_gift(heap, list) ==
    SelectSeq(list, LAMBDA o: ~heap[o].purchased)

\* WeddingList.to_json, with the members serialized by GiftItem.to_json.
WeddingList_to_json(heap, list) ==
    LET ser(s) == [i \in 1..Len(s) |-> GiftItem_to_json(heap[s[i]])]
    IN  [kind |-> "report",
         purchased_gifts |-> ser(get_purchased_gift(heap, list)),
         not_purchased_gifts |-> ser(get_non_purchased_gift(heap, list))]

\* Mutant of ListRemove: the first member is dropped, whichever object it is.
ListRemove_head(list, o) == IF list = <<>> THEN <<>> ELSE Tail(list)

\* list.remove(x): drop the first occurrence of the object.
RECURSIVE ListRemove(_, _)
ListRemove(list, o) ==
    IF list = <<>> THEN <<>>
    ELSE IF Head(list) = o THEN Tail(list)
    ELSE <<Head(list)>> \o ListRemove(Tail(list), o)

\* Mutant of FoundGift: the comprehension has no filter.
FoundGift_unfiltered(heap, list, gift_id) == list

\* Mutant of FoundGift: when no member matches, the first member is taken.
FoundGift_or_first(heap, list, gift_id) ==
    LET found == SelectSeq(list, LAMBDA o: heap[o].gift_id = gift_id)
    IN  IF found = <<>> /\ list # <<>> THEN <<list[1]>> ELSE found

\* found_gift of the handlers: the members whose gift_id is the one asked for.
FoundGift(heap, list, gift_id) ==
    SelectSeq(list, LAMBDA o: heap[o].gift_id = gift_id)

\* list.index(x): the position of the first occurrence of the object, 0 when
\* list.index raises ValueError.
Index(list, o) ==
    IF \E i \in 1..Len(list) : list[i] = o
    THEN CHOOSE i \in 1..Len(list) :
            list[i] = o /\ \A j \in 1..(i - 1) : list[j] # o
    ELSE 0

\* Mutant of GiftItem_purchase_product: _purchased is set before
\* self.product.purchase() is called.
GiftItem_purchase_product_flag_first(gift, prods, gifts) ==
    LET r == Product_purchase(gift.product, prods)
    IN  [raised |-> r.raised,
         gift |-> [gift EXCEPT !.product = r.prod, !.purchased = TRUE],
         products |-> r.products,
         wedding_gift |-> gifts]

\* Mutant of GiftItem_purchase_product: the gift's row is updated before
\* self.product.purchase() is called.
GiftItem_purchase_product_row_first(gift, prods, gifts) ==
    LET r == Product_purchase(gift.product, prods)
    IN  [raised |-> r.raised,
         gift |-> [gift EXCEPT !.product = r.prod],
         products |-> r.products,
         wedding_gift |-> UpdatePurchased(gifts, gift.gift_id)]

\* GiftItem.purchase up to the return of self.product.purchase(): the gift
\* object and the two tables at that point, and the exception raised.
GiftItem_purchase_product(gift, prods, gifts) ==
    LET r == Product_purchase(gift.product, prods)
    IN  [raised |-> r.raised,
         gift |-> [gift EXCEPT !.product = r.prod],
         products |-> r.products,
         wedding_gift |-> gifts]

\* GiftItem.purchase after self.product.purchase() returned: _purchased is
\* set and the gift's row is updated.
GiftItem_purchase_mark(gift, gifts) ==
    [gift |-> [gift EXCEPT !.purchased = TRUE],
     wedding_gift |-> UpdatePurchased(gifts, gift.gift_id)]

\* GiftItem.purchase, the whole call.
GiftItem_purchase(gift, prods, gifts) ==
    LET r == GiftItem_purchase_product(gift, prods, gifts)
        m == GiftItem_purchase_mark(r.gift, r.wedding_gift)
    IN  IF r.raised = OutOfStock
        THEN r
        ELSE [raised |-> "none", gift |-> m.gift,
              products |-> r.products, wedding_gift |-> m.wedding_gift]

\* WeddingList.get_wedding_gifts run without interruption: one GiftItem per
\* row in row order; UnknownProduct when some row's product is missing.
WeddingGifts(prods, gifts) ==
    LET got == [i \in 1..Len(gifts) |-> GiftOfRow(prods, gifts[i])]
    IN  IF \E i \in 1..Len(got) : got[i].raised = UnknownProduct
        THEN [raised |-> UnknownProduct, gifts |-> <<>>]
        ELSE [raised |-> "none",
              gifts |-> [i \in 1..Len(got) |-> got[i].gift]]

\* WeddingList.purchase_gift(gift): self[self.index(gift)].purchase() on the
\* list of object ids whose objects live in heap.
WeddingList_purchase_gift(heap, list, target, prods, gifts) ==
    LET i == Index(list, target)
    IN  IF i = 0
        THEN [raised |-> "ValueError", heap |-> heap,
              products |-> prods, wedding_gift |-> gifts]
        ELSE LET r == GiftItem_purchase(heap[list[i]], prods, gifts)
             IN  [raised |-> r.raised,
                  heap |-> [heap EXCEPT ![list[i]] = r.gift],
                  products |-> r.products,
                  wedding_gift |-> r.wedding_gift]

\* ------------------------------------------------- wedding_lister.py, init_db
\* The tables that schema.sql creates.
Schema == {"products", "wedding_gift"}

\* Mutant of HasProductsTable: the table is looked up under another name.
HasProductsTable_misnamed(names) == "product" \in names

\* ('products',) in rows, rows the table names that sqlite_master lists.
HasProductsTable(names) == "products" \in names

\* gift_repo before init_db has built it.
NoRepository == [raised |-> "unset", products |-> <<>>]

\* gift.price / 100.: true division gives the amount in major units, a number
\* with hundredths, which is an integer only when hundredths is 0.
Hundredth(price) == [units |-> price \div 100, hundredths |-> price % 100]

\* gift_tuple of init_db, as the row that the INSERT stores.
gift_tuple(gift) ==
    [rowid |-> gift.product_id,
     name |-> gift.name,
     brand |-> gift.brand,
     price |-> Hundredth(gift.price),
     in_stock_quantity |-> gift.in_stock_quantity]

\* The INSERTs of init_db over gift_repo: the rows of the products table, in
\* rowid order, when they are committed.  A Product without attributes
\* raises AttributeError and a rowid used twice IntegrityError; then
\* db_conn.commit() is not reached and no row is stored.
init_db_rows(repo) ==
    IF \E i \in 1..Len(repo) : repo[i] = EmptyDict
    THEN [raised |-> "AttributeError", products |-> <<>>]
    ELSE IF \E i, j \in 1..Len(repo) :
                i # j /\ repo[i].product_id = repo[j].product_id
    THEN [raised |-> "IntegrityError", products |-> <<>>]
    ELSE LET rank(i) == Cardinality({j \in 1..Len(repo) :
                            repo[j].product_id <= repo[i].product_id})
         IN  [raised |-> "none",
              products |-> [k \in 1..Len(repo) |->
                  gift_tuple(repo[CHOOSE i \in 1..Len(repo) : rank(i) = k])]]

\* The product descriptions of a products.json of the shape of the example
\* repository, with the given stock quantities.
Description(i, quantity) ==
    [id |-> i,
     name |-> <<"Product", i>>,
     brand |-> <<"Brand", i>>,
     price |-> <<"1", "2", ".", "5", "0", "G", "B", "P">>,
     in_stock_quantity |-> quantity]

ExampleCatalogues ==
    {[i \in ProductIds |-> Description(i, q[i])] :
        q \in [ProductIds -> 0..MaxStock]}

\* ------------------------------------------------------------------- Init
\* The state after init_db: the catalogue is imported, no gift is requested,
\* no request is in flight.
Init ==
    /\ catalogue \in ExampleCatalogues
    /\ tables = Schema
    /\ gift_repo = get_example_gift_repository(catalogue)
    /\ products = init_db_rows(gift_repo.products).products
    /\ wedding_gift = <<>>
    /\ next_rowid = 1
    /\ pc = [p \in Procs |-> "idle"]
    /\ req = [p \in Procs |-> NoRequest]
    /\ rows = [p \in Procs |-> <<>>]
    /\ objs = [p \in Procs |-> <<>>]
    /\ wl = [p \in Procs |-> <<>>]
    /\ product = [p \in Procs |-> NoProduct]
    /\ result = [p \in Procs |-> "none"]
    /\ resp = [p \in Procs |-> NoResponse]
    /\ stock0 = Stock(products)
    /\ sold = [i \in ProductIds |-> 0]
    /\ decremented = {}
    /\ removed = {}

\* ----------------------------------------------------- wedding_lister.py
\* Object ids are positions in the request's objs; a new object gets the next.
NewObj(p) == Len(objs[p]) + 1

\* The add-gift requests that have not yet inserted their row.
AddsInFlight == {p \in Procs : req[p].op = "add" /\ pc[p] \in {"resolve", "handler", "insert"}}

\* Every handler starts with WeddingList.get_wedding_gifts(get_db()), whose
\* first statement is SELECT rowid, product_id, purchased FROM wedding_gift.
SelectGifts(p, request) ==
    /\ pc[p] = "idle"
    /\ req' = [req EXCEPT ![p] = request]
    /\ rows' = [rows EXCEPT ![p] = wedding_gift]
    /\ pc' = [pc EXCEPT ![p] = IF wedding_gift = <<>> THEN "handler" ELSE "resolve"]
    /\ UNCHANGED <<store, objs, wl, product, result, resp, boot, history>>

\* The handler ends: its outcome and response are set, the request is over.
Finish(p, outcome, body) ==
    /\ pc' = [pc EXCEPT ![p] = "done"]
    /\ result' = [result EXCEPT ![p] = outcome]
    /\ resp' = [resp EXCEPT ![p] = body]

\* PUT /wedding-list
add_to_wedding_list(p) ==
    \E product_id \in 1..(NumProducts + 1) :
        /\ next_rowid + Cardinality(AddsInFlight) <= MaxGifts
        /\ SelectGifts(p, [op |-> "add", product_id |-> product_id])

\* PATCH /wedding-list/<gift_id>; a body whose "purchase" is false does nothing.
purchase_gift_from_wedding_list(p) ==
    \E gift_id \in GiftIds, purchase \in BOOLEAN :
        IF purchase
        THEN SelectGifts(p, [op |-> "purchase", gift_id |-> gift_id,
                             purchase |-> TRUE])
        ELSE /\ pc[p] = "idle"
             /\ req' = [req EXCEPT ![p] = [op |-> "purchase", gift_id |-> gift_id,
                                          purchase |-> FALSE]]
             /\ Finish(p, "ok", [kind |-> "empty"])
             /\ UNCHANGED <<store, rows, objs, wl, product, boot, history>>

\* DELETE /wedding-list/<gift_id>
remove_from_wedding_list(p) ==
    \E gift_id \in GiftIds :
        SelectGifts(p, [op |-> "remove", gift_id |-> gift_id])

\* GET /wedding-list-report
get_wedding_list_report(p) ==
    SelectGifts(p, [op |-> "report"])

\* WeddingList.get_wedding_gifts, one fetched row: Product.get_product_by_id
\* reads the products table and the GiftItem is built from it.
get_wedding_gifts(p) ==
    /\ pc[p] = "resolve"
    /\ LET got == GiftOfRow(products, Head(rows[p]))
       IN  IF got.raised = UnknownProduct
           THEN /\ Finish(p, UnknownProduct, NoResponse)
                /\ UNCHANGED <<rows, objs, wl>>
           ELSE /\ objs' = [objs EXCEPT ![p] = Append(@, got.gift)]
                /\ wl' = [wl EXCEPT ![p] = Append(@, NewObj(p))]
                /\ rows' = [rows EXCEPT ![p] = Tail(@)]
                /\ pc' = [pc EXCEPT ![p] =
                            IF Tail(rows[p]) = <<>> THEN "handler" ELSE "resolve"]
                /\ UNCHANGED <<result, resp>>
    /\ UNCHANGED <<store, req, product, boot, history>>

\* add_to_wedding_list, Product.get_product_by_id(db_conn, product_id)
add_get_product(p) ==
    /\ pc[p] = "handler"
    /\ req[p].op = "add"
    /\ LET got == get_product_by_id(products, req[p].product_id)
       IN  IF got.raised = UnknownProduct
           THEN /\ Finish(p, UnknownProduct, NoResponse)
                /\ UNCHANGED product
           ELSE /\ product' = [product EXCEPT ![p] = got.product]
                /\ pc' = [pc EXCEPT ![p] = "insert"]
                /\ UNCHANGED <<result, resp>>
    /\ UNCHANGED <<store, req, rows, objs, wl, boot, history>>

\* add_to_wedding_list, GiftItem.get_new_gift_item and wedding_gifts.append
get_new_gift_item(p) ==
    /\ pc[p] = "insert"
    /\ LET gift_row_id == lastrowid(next_rowid)
       IN  /\ wedding_gift' = InsertGift(wedding_gift, gift_row_id,
                                         product[p].product_id)
           /\ next_rowid' = next_rowid + 1
           /\ objs' = [objs EXCEPT ![p] =
                         Append(@, GiftItem(gift_row_id, product[p], FALSE))]
           /\ wl' = [wl EXCEPT ![p] = Append(@, NewObj(p))]
           /\ Finish(p, "ok", [kind |-> "gift_id", gift_id |-> gift_row_id])
    /\ UNCHANGED <<products, req, rows, product, boot, history>>

\* purchase_gift_from_wedding_list after the load: found_gift, then
\* found_gift[0].purchase() up to the commit of Product.purchase.
purchase_product(p) ==
    /\ pc[p] = "handler"
    /\ req[p].op = "purchase"
    /\ LET found_gift == FoundGift(objs[p], wl[p], req[p].gift_id)
       IN  IF found_gift = <<>>
           THEN /\ Finish(p, BadRequest, NoResponse)
                /\ UNCHANGED <<products, wedding_gift, objs, sold, decremented>>
           ELSE LET o == found_gift[1]
                    r == GiftItem_purchase_product(objs[p][o], products,
                                                   wedding_gift)
                IN  /\ objs' = [objs EXCEPT ![p][o] = r.gift]
                    /\ products' = r.products
                    /\ wedding_gift' = r.wedding_gift
                    /\ IF r.raised = OutOfStock
                       THEN /\ Finish(p, OutOfStock, NoResponse)
                            /\ UNCHANGED <<sold, decremented>>
                       ELSE /\ sold' = [sold EXCEPT
                                          ![r.gift.product.product_id] = @ + 1]
                            /\ decremented' =
                                  decremented \cup {r.gift.gift_id}
                            /\ pc' = [pc EXCEPT ![p] = "mark"]
                            /\ UNCHANGED <<result, resp>>
    /\ UNCHANGED <<next_rowid, req, rows, wl, product, boot, stock0, removed>>

\* GiftItem.purchase after Product.purchase returned: _purchased = True and
\* the UPDATE of the gift's row, committed.
mark_purchased(p) ==
    /\ pc[p] = "mark"
    /\ LET o == FoundGift(objs[p], wl[p], req[p].gift_id)[1]
           m == GiftItem_purchase_mark(objs[p][o], wedding_gift)
       IN  /\ objs' = [objs EXCEPT ![p][o] = m.gift]
           /\ wedding_gift' = m.wedding_gift
    /\ Finish(p, "ok", [kind |-> "empty"])
    /\ UNCHANGED <<products, next_rowid, req, rows, wl, product, boot, history>>

\* GiftItem.purchase stops between its two commits: the second UPDATE fails
\* in the store, after _purchased = True was set in memory.
mark_purchased_fails(p) ==
    /\ pc[p] = "mark"
    /\ LET o == FoundGift(objs[p], wl[p], req[p].gift_id)[1]
           m == GiftItem_purchase_mark(objs[p][o], wedding_gift)
       IN  objs' = [objs EXCEPT ![p][o] = m.gift]
    /\ Finish(p, StoreError, NoResponse)
    /\ UNCHANGED <<store, req, rows, wl, product, boot, history>>

\* remove_from_wedding_list after the load: found_gift, wedding_gifts.remove
\* and GiftItem.remove.
remove_gift(p) ==
    /\ pc[p] = "handler"
    /\ req[p].op = "remove"
    /\ LET found_gift == FoundGift(objs[p], wl[p], req[p].gift_id)
       IN  IF found_gift = <<>>
           THEN /\ Finish(p, BadRequest, NoResponse)
                /\ UNCHANGED <<wedding_gift, wl, removed>>
           ELSE /\ wl' = [wl EXCEPT ![p] = ListRemove(@, found_gift[1])]
                /\ wedding_gift' = DeleteRow(wedding_gift,
                                             objs[p][found_gift[1]].gift_id)
                /\ removed' = removed \cup {objs[p][found_gift[1]].gift_id}
                /\ Finish(p, "ok", [kind |-> "empty"])
    /\ UNCHANGED <<products, next_rowid, req, rows, objs, product, boot, stock0, sold, decremented>>

\* get_wedding_list_report after the load: jsonify(WeddingList(...))
build_report(p) ==
    /\ pc[p] = "handler"
    /\ req[p].op = "report"
    /\ Finish(p, "ok", WeddingList_to_json(objs[p], wl[p]))
    /\ UNCHANGED <<store, req, rows, objs, wl, product, boot, history>>

\* close_connection: the request context is torn down and its objects are gone.
close_connection(p) ==
    /\ pc[p] = "done"
    /\ pc' = [pc EXCEPT ![p] = "idle"]
    /\ req' = [req EXCEPT ![p] = NoRequest]
    /\ rows' = [rows EXCEPT ![p] = <<>>]
    /\ objs' = [objs EXCEPT ![p] = <<>>]
    /\ wl' = [wl EXCEPT ![p] = <<>>]
    /\ product' = [product EXCEPT ![p] = NoProduct]
    /\ result' = [result EXCEPT ![p] = "none"]
    /\ resp' = [resp EXCEPT ![p] = NoResponse]
    /\ UNCHANGED <<store, boot, history>>

Next ==
    \E p \in Procs :
        \/ add_to_wedding_list(p)
        \/ purchase_gift_from_wedding_list(p)
        \/ remove_from_wedding_list(p)
        \/ get_wedding_list_report(p)
        \/ get_wedding_gifts(p)
        \/ add_get_product(p)
        \/ get_new_gift_item(p)
        \/ purchase_product(p)
        \/ mark_purchased(p)
        \/ mark_purchased_fails(p)
        \/ remove_gift(p)
        \/ build_report(p)
        \/ close_connection(p)

Spec == Init /\ [][Next]_vars

\* -------------------------------------------------- the library, one caller
\* A single caller that holds one WeddingList and calls model.py directly on
\* one connection, as the unit tests do; every call runs to completion.  Its
\* objects are objs[Caller] (members of its list or not), its list is
\* wl[Caller], and req[Caller] names the call that last built or changed the
\* membership of the list.
Caller == 1

Called(name, outcome) ==
    /\ req' = [req EXCEPT ![Caller] = [op |-> name]]
    /\ result' = [result EXCEPT ![Caller] = outcome]

\* wedding_list = WeddingList(WeddingList.get_wedding_gifts(db_conn))
lib_get_wedding_gifts ==
    LET l == WeddingGifts(products, wedding_gift)
    IN  /\ IF l.raised = UnknownProduct
           THEN /\ result' = [result EXCEPT ![Caller] = UnknownProduct]
                /\ UNCHANGED <<req, objs, wl>>
           ELSE /\ objs' = [objs EXCEPT ![Caller] = l.gifts]
                /\ wl' = [wl EXCEPT ![Caller] = [i \in 1..Len(l.gifts) |-> i]]
                /\ Called("get_wedding_gifts", "ok")
        /\ UNCHANGED <<store, pc, rows, product, resp, boot, history>>

\* wedding_list.append(GiftItem.get_new_gift_item(db_conn,
\*     Product.get_product_by_id(db_conn, product_id)))
lib_append_new_gift ==
    \E product_id \in 1..(NumProducts + 1) :
        /\ next_rowid <= MaxGifts
        /\ LET got == get_product_by_id(products, product_id)
               gift_row_id == lastrowid(next_rowid)
           IN  IF got.raised = UnknownProduct
               THEN /\ result' = [result EXCEPT ![Caller] = UnknownProduct]
                    /\ UNCHANGED <<wedding_gift, next_rowid, req, objs, wl>>
               ELSE /\ wedding_gift' = InsertGift(wedding_gift, gift_row_id,
                                                 got.product.product_id)
                    /\ next_rowid' = next_rowid + 1
                    /\ objs' = [objs EXCEPT ![Caller] =
                                 Append(@, GiftItem(gift_row_id, got.product, FALSE))]
                    /\ wl' = [wl EXCEPT ![Caller] = Append(@, NewObj(Caller))]
                    /\ Called("append", "ok")
        /\ UNCHANGED <<products, pc, rows, product, resp, boot, history>>

\* wedding_list.purchase_gift(gift), gift any GiftItem the caller holds
lib_purchase_gift ==
    \E target \in DOMAIN objs[Caller] :
        LET r == WeddingList_purchase_gift(objs[Caller], wl[Caller], target,
                                           products, wedding_gift)
            gift == objs[Caller][target]
        IN  /\ objs' = [objs EXCEPT ![Caller] = r.heap]
            /\ products' = r.products
            /\ wedding_gift' = r.wedding_gift
            /\ result' = [result EXCEPT ![Caller] =
                            IF r.raised = "none" THEN "ok" ELSE r.raised]
            /\ IF r.raised = "none"
               THEN /\ sold' = [sold EXCEPT ![gift.product.product_id] = @ + 1]
                    /\ decremented' = decremented \cup {gift.gift_id}
               ELSE UNCHANGED <<sold, decremented>>
            /\ UNCHANGED <<next_rowid, pc, req, rows, wl, product, resp,
                           boot, stock0, removed>>

\* gift = wedding_list[i]; wedding_list.remove(gift); gift.remove()
lib_remove_gift ==
    \E i \in 1..Len(wl[Caller]) :
        LET o == wl[Caller][i]
        IN  /\ wl' = [wl EXCEPT ![Caller] = ListRemove(@, o)]
            /\ wedding_gift' = DeleteRow(wedding_gift, objs[Caller][o].gift_id)
            /\ removed' = removed \cup {objs[Caller][o].gift_id}
            /\ Called("remove", "ok")
            /\ UNCHANGED <<products, next_rowid, pc, rows, objs, product, resp,
                           boot, stock0, sold, decremented>>

\* gift = WeddingList.get_wedding_gifts(db_conn)[k]: a GiftItem loaded
\* separately from the caller's list.
lib_load_gift ==
    \E k \in 1..Len(wedding_gift) :
        /\ Len(objs[Caller]) < MaxObjs
        /\ LET l == WeddingGifts(products, wedding_gift)
           IN  IF l.raised = UnknownProduct
               THEN /\ result' = [result EXCEPT ![Caller] = UnknownProduct]
                    /\ UNCHANGED objs
               ELSE /\ objs' = [objs EXCEPT ![Caller] = Append(@, l.gifts[k])]
                    /\ result' = [result EXCEPT ![Caller] = "ok"]
        /\ UNCHANGED <<store, pc, req, rows, wl, product, resp, boot, history>>

\* gift = GiftItem.get_new_gift_item(db_conn,
\*     Product.get_product_by_id(db_conn, product_id)), not appended
lib_get_new_gift_item ==
    \E product_id \in ProductIds :
        /\ next_rowid <= MaxGifts
        /\ LET got == get_product_by_id(products, product_id)
               gift_row_id == lastrowid(next_rowid)
           IN  /\ got.raised = "none"
               /\ wedding_gift' = InsertGift(wedding_gift, gift_row_id,
                                            got.product.product_id)
               /\ next_rowid' = next_rowid + 1
               /\ objs' = [objs EXCEPT ![Caller] =
                            Append(@, GiftItem(gift_row_id, got.product, FALSE))]
               /\ result' = [result EXCEPT ![Caller] = "ok"]
        /\ UNCHANGED <<products, pc, req, rows, wl, product, resp, boot, history>>

\* wedding_list.append(gift), gift any GiftItem the caller holds
lib_append ==
    \E o \in DOMAIN objs[Caller] :
        /\ Len(wl[Caller]) < MaxLen
        /\ wl' = [wl EXCEPT ![Caller] = Append(@, o)]
        /\ Called("append", "ok")
        /\ UNCHANGED <<store, pc, rows, objs, product, resp, boot, history>>

\* wedding_list.remove(gift), gift any GiftItem the caller holds
lib_remove ==
    \E o \in DOMAIN objs[Caller] :
        /\ IF Index(wl[Caller], o) = 0
           THEN /\ result' = [result EXCEPT ![Caller] = "ValueError"]
                /\ UNCHANGED <<req, wl>>
           ELSE /\ wl' = [wl EXCEPT ![Caller] = ListRemove(@, o)]
                /\ Called("remove", "ok")
        /\ UNCHANGED <<store, pc, rows, objs, product, resp, boot, history>>

\* gift.remove(), gift any GiftItem the caller holds
lib_GiftItem_remove ==
    \E o \in DOMAIN objs[Caller] :
        /\ wedding_gift' = DeleteRow(wedding_gift, objs[Caller][o].gift_id)
        /\ removed' = removed \cup {objs[Caller][o].gift_id}
        /\ result' = [result EXCEPT ![Caller] = "ok"]
        /\ UNCHANGED <<products, next_rowid, pc, req, rows, objs, wl, product,
                       resp, boot, stock0, sold, decremented>>

LibNext ==
    \/ lib_get_wedding_gifts
    \/ lib_append_new_gift
    \/ lib_purchase_gift
    \/ lib_remove_gift
    \/ lib_load_gift
    \/ lib_get_new_gift_item
    \/ lib_append
    \/ lib_remove
    \/ lib_GiftItem_remove

LibSpec == Init /\ [][LibNext]_vars

\* ------------------------------------------------------------ bootstrap
\* A description of products.json for product i whose price is given by
\* field: a price string, an int_price, both or neither.
DescriptionWith(i, quantity, field) ==
    IF field.key = "price"
    THEN [id |-> i, name |-> <<"Product", i>>, brand |-> <<"Brand", i>>,
          price |-> field.price, in_stock_quantity |-> quantity]
    ELSE IF field.key = "int_price"
    THEN [id |-> i, name |-> <<"Product", i>>, brand |-> <<"Brand", i>>,
          int_price |-> field.int_price, in_stock_quantity |-> quantity]
    ELSE IF field.key = "both"
    THEN [id |-> i, name |-> <<"Product", i>>, brand |-> <<"Brand", i>>,
          int_price |-> field.int_price, price |-> field.price,
          in_stock_quantity |-> quantity]
    ELSE [id |-> i, name |-> <<"Product", i>>, brand |-> <<"Brand", i>>,
          in_stock_quantity |-> quantity]

GBP == <<"G", "B", "P">>

\* The strings of at most n of the digits 0, 1, 2 and 5.
DigitStrings(n) ==
    UNION {[1..k -> {"0", "1", "2", "5"}] : k \in 0..n}

\* Price strings, well formed and not: digits, a point or none, digits, and
\* GBP, another code, GBP followed by more, or nothing.
PriceStrings ==
    {whole \o point \o fractional \o currency :
        whole \in DigitStrings(MaxWhole),
        point \in {<<".">>, <<>>},
        fractional \in DigitStrings(MaxFrac),
        currency \in {GBP, <<"U", "S", "D">>, GBP \o <<"x">>, <<>>}}

PriceFields ==
    {[key |-> "price", price |-> str] : str \in PriceStrings}
        \cup {[key |-> "int_price", int_price |-> v] : v \in {0, 1, 999}}
        \cup {[key |-> "both", int_price |-> 999,
                price |-> <<"1", "2", ".", "5", "0">> \o GBP]}
        \cup {[key |-> "neither"]}

\* The prices of the descriptions of a catalogue of several products.
ListedPrices ==
    {[key |-> "price", price |-> <<"1", "2", ".", "5", "0">> \o GBP],
     [key |-> "price", price |-> <<"0", ".", "0", "1">> \o GBP],
     [key |-> "price", price |-> <<"2", ".", "0", "0">> \o GBP],
     [key |-> "int_price", int_price |-> 999],
     [key |-> "int_price", int_price |-> 0]}

\* The contents of products.json that init_db is run on: one description of
\* any kind (the empty one included), or one description for every product.
Catalogues ==
    {<<DescriptionWith(1, 1, field)>> : field \in PriceFields}
        \cup {<<EmptyDict>>}
        \cup {[i \in ProductIds |-> DescriptionWith(i, q[i], f[i])] :
                q \in [ProductIds -> 0..MaxStock],
                f \in [ProductIds -> ListedPrices]}

\* A database file without tables, before init_db has run.
BootInit ==
    /\ catalogue \in Catalogues
    /\ tables = {}
    /\ gift_repo = NoRepository
    /\ products = <<>>
    /\ wedding_gift = <<>>
    /\ next_rowid = 1
    /\ pc = [p \in Procs |-> "idle"]
    /\ req = [p \in Procs |-> NoRequest]
    /\ rows = [p \in Procs |-> <<>>]
    /\ objs = [p \in Procs |-> <<>>]
    /\ wl = [p \in Procs |-> <<>>]
    /\ product = [p \in Procs |-> NoProduct]
    /\ result = [p \in Procs |-> "none"]
    /\ resp = [p \in Procs |-> NoResponse]
    /\ stock0 = Stock(products)
    /\ sold = [i \in ProductIds |-> 0]
    /\ decremented = {}
    /\ removed = {}

\* init_db(db_conn), called between requests by whoever holds the
\* connection (__main__ before app.run(), setUp of the tests).  On a database
\* file that has no products table the schema is created (executescript
\* commits it), the example repository is built and its products are inserted
\* and committed ("Finished creating database schema" is logged); when a
\* construction or an INSERT raises, the tables stay and no row is stored.  On
\* a file that has the table nothing is done.
init_db ==
    /\ \A p \in Procs : pc[p] = "idle"
    /\ IF ~HasProductsTable(tables)
       THEN LET repo == get_example_gift_repository(catalogue)
                inserted == init_db_rows(repo.products)
            IN  /\ tables' = tables \cup Schema
                /\ gift_repo' = repo
                /\ products' = inserted.products
                /\ stock0' = Stock(products')
                /\ Called("init_db",
                          IF repo.raised # "none" THEN repo.raised
                          ELSE IF inserted.raised # "none" THEN inserted.raised
                          ELSE "created")
       ELSE /\ Called("init_db", "skipped")
            /\ UNCHANGED <<tables, gift_repo, products, stock0>>
    /\ UNCHANGED <<wedding_gift, next_rowid, pc, rows, objs, wl, product,
                   resp, catalogue, sold, decremented, removed>>

\* GET /available-products, served once init_db has created the tables.
available_products(p) ==
    /\ pc[p] = "idle"
    /\ "products" \in tables
    /\ req' = [req EXCEPT ![p] = [op |-> "products"]]
    /\ LET repo == get_gift_repository(products)
       IN  Finish(p, "ok",
                  [kind |-> "products",
                   products |-> [i \in 1..Len(repo) |-> Product_to_json(repo[i])]])
    /\ UNCHANGED <<store, rows, objs, wl, product, boot, history>>

BootNext ==
    \/ init_db
    \/ \E p \in Procs :
          \/ available_products(p)
          \/ close_connection(p)

BootSpec == BootInit /\ [][BootNext]_vars

\* ------------------------------------------- an existing database file
\* get_db connects to whatever database file is at app.config['DATABASE'],
\* and init_db imports nothing when that file has a products table: the
\* requests then run on the rows the file holds.  Its products table may lack
\* a product that a wedding_gift row names, and a purchased column may hold
\* any number.
StoredProducts ==
    {SelectSeq(init_db_rows(get_example_gift_repository(c).products).products,
               LAMBDA r: r.rowid \in S) :
        c \in ExampleCatalogues, S \in SUBSET ProductIds}

StoredGifts ==
    UNION {{[k \in 1..n |-> [rowid |-> k, product_id |-> f[k],
                             purchased |-> g[k]]] :
                f \in [1..n -> ProductIds], g \in [1..n -> 0..MaxFlag]} :
           n \in 0..MaxGifts}

LoadInit ==
    /\ catalogue = <<>>
    /\ tables = Schema
    /\ gift_repo = NoRepository
    /\ products \in StoredProducts
    /\ wedding_gift \in StoredGifts
    /\ next_rowid = Len(wedding_gift) + 1
    /\ pc = [p \in Procs |-> "idle"]
    /\ req = [p \in Procs |-> NoRequest]
    /\ rows = [p \in Procs |-> <<>>]
    /\ objs = [p \in Procs |-> <<>>]
    /\ wl = [p \in Procs |-> <<>>]
    /\ product = [p \in Procs |-> NoProduct]
    /\ result = [p \in Procs |-> "none"]
    /\ resp = [p \in Procs |-> NoResponse]
    /\ stock0 = Stock(products)
    /\ sold = [i \in ProductIds |-> 0]
    /\ decremented = {}
    /\ removed = {}

\* The requests that only read: GET /wedding-list-report.
LoadNext ==
    \E p \in Procs :
        \/ get_wedding_list_report(p)
        \/ get_wedding_gifts(p)
        \/ build_report(p)
        \/ close_connection(p)

LoadSpec == LoadInit /\ [][LoadNext]_vars

\* ------------------------------------- one caller, init_db called again
\* One caller on one connection, as in the unit tests: init_db on a new
\* database file, then library calls, with init_db called again at any point
\* (every setUp and every start of __main__ calls it).
\* Its products.json lists MaxUnits of every product.
StockedCatalogue == [i \in ProductIds |-> Description(i, MaxUnits)]

RestartInit ==
    /\ catalogue = StockedCatalogue
    /\ tables = {}
    /\ gift_repo = NoRepository
    /\ products = <<>>
    /\ wedding_gift = <<>>
    /\ next_rowid = 1
    /\ pc = [p \in Procs |-> "idle"]
    /\ req = [p \in Procs |-> NoRequest]
    /\ rows = [p \in Procs |-> <<>>]
    /\ objs = [p \in Procs |-> <<>>]
    /\ wl = [p \in Procs |-> <<>>]
    /\ product = [p \in Procs |-> NoProduct]
    /\ result = [p \in Procs |-> "none"]
    /\ resp = [p \in Procs |-> NoResponse]
    /\ stock0 = Stock(products)
    /\ sold = [i \in ProductIds |-> 0]
    /\ decremented = {}
    /\ removed = {}

\* The library's SQL needs the tables of the schema.
RestartNext ==
    \/ init_db
    \/ "products" \in tables /\ LibNext

RestartSpec == RestartInit /\ [][RestartNext]_vars

\* ================================================================= claims
\* The rows of a table that carry rowid id.
RowsOf(table, id) == SelectSeq(table, LAMBDA r: r.rowid = id)

\* The object the purchase or remove request p found in its list.
Found(p) == FoundGift(objs[p], wl[p], req[p].gift_id)

\* Request p takes the step that runs Product.purchase on the gift it found.
CallsProductPurchase(p) ==
    /\ pc[p] = "handler"
    /\ req[p].op = "purchase"
    /\ pc'[p] # "handler"
    /\ Found(p) # <<>>

\* No request is in the middle of its handler.
Quiescent == \A p \in Procs : pc[p] \in {"idle", "done"}

\* ---------------------------------------------------------------------- C1
StockNeverNegative ==
    \A k \in 1..Len(products) : products[k].in_stock_quantity >= 0

OutOfStockLeavesStock ==
    \A p \in Procs :
        (CallsProductPurchase(p)
            /\ objs[p][Found(p)[1]].product.in_stock_quantity = 0)
        => /\ result'[p] = OutOfStock
           /\ objs'[p][Found(p)[1]].product.in_stock_quantity = 0
           /\ products' = products

\* C1: after any sequence of add-gift, purchase-gift and remove-gift requests
\* every stored in_stock_quantity is >= 0, and Product.purchase() on a product
\* object whose stock is 0 raises OutOfStock, leaves the object's quantity at
\* 0 and writes nothing to the products table.
C1_StockNeverNegative ==
    []StockNeverNegative /\ [][OutOfStockLeavesStock]_vars

\* A purchase request was refused with OutOfStock on a product whose object
\* and whose row both hold 0.
C1_Witness ==
    \E p \in Procs :
        /\ pc[p] = "done"
        /\ req[p].op = "purchase"
        /\ result[p] = OutOfStock
        /\ objs[p][Found(p)[1]].product.in_stock_quantity = 0
        /\ Stock(products)[objs[p][Found(p)[1]].product.product_id] = 0

\* ---------------------------------------------------------------------- C2
\* C2: a successful Product.purchase() on an object with stock N > 0 leaves
\* the object at N-1 and the product's row at N-1, so that the Product read
\* back by get_gift_repository / get_product_by_id holds N-1.
C2_PurchaseDecrementsByOne ==
    [][\A p \in Procs :
        (CallsProductPurchase(p) /\ pc'[p] = "mark")
        => LET o == Found(p)[1]
               N == objs[p][o].product.in_stock_quantity
               id == objs[p][o].product.product_id
               reloaded == get_product_by_id(products', id)
           IN  /\ N > 0
               /\ objs'[p][o].product.in_stock_quantity = N - 1
               /\ reloaded.raised = "none"
               /\ reloaded.product.in_stock_quantity = N - 1
               /\ \E k \in 1..Len(products') :
                     get_gift_repository(products')[k] =
                        [objs[p][o].product EXCEPT !.in_stock_quantity = N - 1]]_vars

\* Product.purchase has just returned to a request: the object and the row
\* of a product that started with one unit both hold 0.
C2_Witness ==
    \E p \in Procs :
        /\ pc[p] = "mark"
        /\ LET prod == objs[p][Found(p)[1]].product
           IN  /\ stock0[prod.product_id] = 1
               /\ prod.in_stock_quantity = 0
               /\ get_product_by_id(products, prod.product_id)
                    .product.in_stock_quantity = 0

\* ---------------------------------------------------------------------- C3
\* C3: when purchase requests for gifts of the same product run concurrently,
\* every interleaving ends with the stored stock reduced by exactly the
\* number of purchases that succeeded (no lost update; with stock 1 at most
\* one of two succeeds).
C3_NoLostUpdate ==
    Quiescent =>
        \A i \in ProductIds : Stock(products)[i] = stock0[i] - sold[i]

\* ---------------------------------------------------------------------- C4
FlagOnlyRises ==
    /\ \A k \in 1..Len(wedding_gift') :
          LET new == wedding_gift'[k]
              old == RowsOf(wedding_gift, new.rowid)
          IN  /\ new.purchased \in {0, 1}
              /\ IF old = <<>>
                 THEN new.purchased = 0
                 ELSE old[1].purchased = 1 => new.purchased = 1
    /\ \A p \in Procs : \A o \in DOMAIN objs'[p] :
          IF o \in DOMAIN objs[p]
          THEN objs[p][o].purchased => objs'[p][o].purchased
          ELSE pc[p] = "insert" => ~objs'[p][o].purchased

\* C4: a gift's purchased flag, in memory and in its wedding_gift row, is
\* false when get_new_gift_item creates the gift and only ever changes from
\* false to true while the gift exists.
C4_PurchasedFlagMonotone == [][FlagOnlyRises]_vars

\* A gift created unpurchased is now purchased in its row and in the object
\* of the request that purchased it.
C4_Witness ==
    \E p \in Procs :
        /\ pc[p] = "done"
        /\ req[p].op = "purchase"
        /\ result[p] = "ok"
        /\ Found(p) # <<>>
        /\ objs[p][Found(p)[1]].purchased
        /\ RowsOf(wedding_gift, req[p].gift_id) # <<>>
        /\ RowsOf(wedding_gift, req[p].gift_id)[1].purchased = 1

\* ---------------------------------------------------------------------- C5
\* C5: GiftItem.purchase() on a gift whose product object has stock 0 fails
\* with OutOfStock and updates nothing: the gift object (its flag and its
\* product's stock of 0) and both tables are as before.
C5_OutOfStockUpdatesNothing ==
    [][\A p \in Procs :
        (CallsProductPurchase(p)
            /\ objs[p][Found(p)[1]].product.in_stock_quantity = 0)
        => /\ result'[p] = OutOfStock
           /\ pc'[p] = "done"
           /\ objs'[p] = objs[p]
           /\ wedding_gift' = wedding_gift
           /\ products' = products]_vars

\* The purchase of an unpurchased gift was refused with OutOfStock and the
\* gift is still unpurchased in memory and in its row.
C5_Witness ==
    \E p \in Procs :
        /\ pc[p] = "done"
        /\ result[p] = OutOfStock
        /\ ~objs[p][Found(p)[1]].purchased
        /\ objs[p][Found(p)[1]].product.in_stock_quantity = 0
        /\ RowsOf(wedding_gift, req[p].gift_id) # <<>>
        /\ RowsOf(wedding_gift, req[p].gift_id)[1].purchased = 0

\* ---------------------------------------------------------------------- C6
\* C6: a successful purchase of gift g changes only g's purchased flag and
\* decrements only the stock of g's product, by exactly one; every other
\* gift's flag and every other product's stock are unchanged.
C6_PurchaseTouchesOnlyItsGift ==
    [][/\ \A i \in ProductIds :
            Stock(products')[i] =
                IF sold'[i] = sold[i] + 1
                THEN Stock(products)[i] - 1
                ELSE Stock(products)[i]
       /\ \A p \in Procs :
            (pc[p] = "mark" /\ pc'[p] = "done" /\ result'[p] = "ok")
            => /\ Len(wedding_gift') = Len(wedding_gift)
               /\ \A k \in 1..Len(wedding_gift) :
                     IF wedding_gift[k].rowid = req[p].gift_id
                     THEN wedding_gift'[k].purchased = 1
                     ELSE wedding_gift'[k] = wedding_gift[k]]_vars

\* ---------------------------------------------------------------------- C7
\* C7: every purchase acts on the store's current stock: each successful
\* purchase_gift on a WeddingList loaded once by get_wedding_gifts lowers the
\* stored stock of the gift's product by one, so two gifts of one product
\* bought from the same list leave N-2.
C7_PurchaseUsesCurrentStock ==
    [][req[Caller].op = "get_wedding_gifts"
        => \A i \in ProductIds :
              sold'[i] = sold[i] + 1
              => Stock(products')[i] = Stock(products)[i] - 1]_vars

\* ---------------------------------------------------------------------- C8
\* C8: the stock decrement of GiftItem.purchase is committed before the flag
\* is written: a row whose purchased flag is 1 belongs to a gift whose
\* purchase has committed its stock UPDATE, also when a purchase stopped
\* between the two commits.
C8_FlagImpliesDecrementCommitted ==
    \A k \in 1..Len(wedding_gift) :
        wedding_gift[k].purchased = 1 => wedding_gift[k].rowid \in decremented

\* A purchase stopped between its two commits: the stock is decremented and
\* the gift's row still says unpurchased.
C8_Witness ==
    \E p \in Procs :
        /\ pc[p] = "done"
        /\ result[p] = StoreError
        /\ req[p].gift_id \in decremented
        /\ RowsOf(wedding_gift, req[p].gift_id) # <<>>
        /\ RowsOf(wedding_gift, req[p].gift_id)[1].purchased = 0
        /\ LET id == objs[p][Found(p)[1]].product.product_id
           IN  Stock(products)[id] = stock0[id] - 1

Positions(list, sub) == [i \in 1..Len(sub) |-> Index(list, sub[i])]

IsPartition(heap, list) ==
    LET bought == get_purchased_gift(heap, list)
        open == get_non_purchased_gift(heap, list)
        range(q) == {q[i] : i \in 1..Len(q)}
    IN  /\ range(bought) \cap range(open) = {}
        /\ range(bought) \cup range(open) = range(list)
        /\ Len(bought) + Len(open) = Len(list)
        /\ \A o \in range(list) : o \in range(bought) <=> heap[o].purchased
        /\ \A q \in {bought, open} : \A i, j \in 1..Len(q) :
              i < j => Positions(list, q)[i] < Positions(list, q)[j]

\* C10: get_purchased_gift() and get_non_purchased_gift() of every
\* WeddingList are disjoint and together hold exactly its members, each in
\* purchased iff its flag is true, in list order; and the report built from
\* the store has purchased_gifts and not_purchased_gifts whose lengths sum to
\* the number of stored gift rows.
C10_ReportPartitionsTheList ==
    /\ \A p \in Procs : IsPartition(objs[p], wl[p])
    /\ \A p \in Procs :
          resp[p].kind = "report"
          => Len(resp[p].purchased_gifts) + Len(resp[p].not_purchased_gifts)
                = Len(wl[p])
    /\ LET l == WeddingGifts(products, wedding_gift)
           report == WeddingList_to_json(l.gifts, [i \in 1..Len(l.gifts) |-> i])
       IN  /\ l.raised = "none"
           /\ Len(report.purchased_gifts) + Len(report.not_purchased_gifts)
                = Len(wedding_gift)

\* A report over two stored gifts, one purchased and one not.
C10_Witness ==
    \E p \in Procs :
        /\ pc[p] = "done"
        /\ resp[p].kind = "report"
        /\ Len(resp[p].purchased_gifts) = 1
        /\ Len(resp[p].not_purchased_gifts) = 1
        /\ Len(wedding_gift) = 2

\* --------------------------------------------------------------------- C11
\* Request p takes a step of its handler.
Acts(p) == pc'[p] # pc[p] \/ rows'[p] # rows[p]

\* The identity and the product of every stored gift, in row order.
Requested(gifts) ==
    [k \in 1..Len(gifts) |-> <<gifts[k].rowid, gifts[k].product_id>>]

\* An add-gift request for an existing product goes on to its INSERT, and the
\* INSERT appends one row for that product, unpurchased, under an identity no
\* stored row has, which the request returns.
AddInsertsOneRow ==
    \A p \in Procs :
        /\ (pc[p] = "handler" /\ req[p].op = "add" /\ Acts(p)
                /\ req[p].product_id \in DOMAIN Stock(products))
           => pc'[p] = "insert" /\ product'[p].product_id = req[p].product_id
        /\ (pc[p] = "insert" /\ Acts(p))
           => LET new == wedding_gift'[Len(wedding_gift')]
              IN  /\ wedding_gift' = Append(wedding_gift, new)
                  /\ new.product_id = req[p].product_id
                  /\ new.purchased = 0
                  /\ RowsOf(wedding_gift, new.rowid) = <<>>
                  /\ products' = products
                  /\ result'[p] = "ok"
                  /\ resp'[p] = [kind |-> "gift_id", gift_id |-> new.rowid]

\* No step reorders the stored gifts or changes the product of one: a step
\* keeps them, appends one or deletes one.
RowsKeepOrder ==
    \/ Requested(wedding_gift') = Requested(wedding_gift)
    \/ \E p \in Procs :
          pc[p] = "insert"
          /\ Requested(wedding_gift') =
                Append(Requested(wedding_gift),
                       <<lastrowid(next_rowid), req[p].product_id>>)
    \/ \E g \in GiftIds :
          Requested(wedding_gift') =
            SelectSeq(Requested(wedding_gift), LAMBDA r: r[1] # g)

\* get_wedding_gifts returns the stored gifts in row order, each with the
\* product of its row.
ListedInRowOrder ==
    LET l == WeddingGifts(products, wedding_gift)
    IN  /\ l.raised = "none"
        /\ [i \in 1..Len(l.gifts) |->
                <<l.gifts[i].gift_id, l.gifts[i].product.product_id>>]
              = Requested(wedding_gift)

\* C11: adding a gift for an existing product inserts exactly one
\* wedding_gift row referencing that product with purchased = 0 and returns
\* its identity; the list returned by get_wedding_gifts contains the stored
\* gifts in the order they were added, each carrying the product it was added
\* for.
C11_AddInsertsOneRowInOrder ==
    []ListedInRowOrder /\ [][AddInsertsOneRow /\ RowsKeepOrder]_vars

\* The second add-gift request returned identity 2 for product 1 after a gift
\* for product 2 had been added: the list holds product 2, then product 1.
C11_Witness ==
    \E p \in Procs :
        /\ pc[p] = "done"
        /\ req[p].op = "add"
        /\ req[p].product_id = 1
        /\ resp[p] = [kind |-> "gift_id", gift_id |-> 2]
        /\ LET l == WeddingGifts(products, wedding_gift)
           IN  /\ Len(l.gifts) = 2
               /\ l.gifts[1].product.product_id = 2
               /\ l.gifts[2].product.product_id = 1
               /\ l.gifts[2].gift_id = 2

\* --------------------------------------------------------------------- C12
\* C12: an add-gift request naming a product identity that has no row in the
\* products table fails with UnknownProduct and inserts no wedding_gift row:
\* no step of the request changes the stored gift rows or product rows.
C12_UnknownProductAddsNothing ==
    [][\A p \in Procs :
        (Acts(p) /\ req'[p].op = "add"
            /\ req'[p].product_id \notin DOMAIN Stock(products))
        => /\ wedding_gift' = wedding_gift
           /\ products' = products
           /\ next_rowid' = next_rowid
           /\ pc'[p] # "insert"
           /\ pc'[p] = "done" => result'[p] = UnknownProduct]_vars

\* An add-gift request for a product that is not in the table ended with
\* UnknownProduct after loading a list of one gift; the table still holds
\* that one gift.
C12_Witness ==
    \E p \in Procs :
        /\ pc[p] = "done"
        /\ req[p].op = "add"
        /\ req[p].product_id \notin DOMAIN Stock(products)
        /\ result[p] = UnknownProduct
        /\ Len(wl[p]) = 1
        /\ Len(wedding_gift) = 1

\* --------------------------------------------------------------------- C13
\* The gift identities request p has seen: those of the rows it fetched and
\* of the members of its list.
Loaded(p) ==
    {rows[p][k].rowid : k \in 1..Len(rows[p])}
        \cup {objs[p][wl[p][k]].gift_id : k \in 1..Len(wl[p])}

\* Before a step of request p, no row is stored for the gift it names: none
\* is in the table when the request loads it, none was loaded afterwards.
NamesUnknownGift(p) ==
    IF pc[p] = "idle"
    THEN RowsOf(wedding_gift, req'[p].gift_id) = <<>>
    ELSE req[p].gift_id \notin Loaded(p)

\* A request that names an unknown gift loads its list, finds nothing and is
\* refused, and none of its steps writes to a table.
RefusesUnknownGift(p) ==
    /\ req'[p].gift_id \notin Loaded(p)'
    /\ pc'[p] \in {"resolve", "handler", "done"}
    /\ pc'[p] = "done" => result'[p] = BadRequest
    /\ products' = products
    /\ wedding_gift' = wedding_gift

\* C13: a purchase-gift request naming a gift identity that has no stored row
\* fails with an Unknown-Gift error (BadRequest "Unknown gift ID") and
\* changes no product stock and no gift row.
C13_PurchaseOfUnknownGiftRefused ==
    [][\A p \in Procs :
        (Acts(p) /\ req'[p].op = "purchase" /\ req'[p].purchase
            /\ NamesUnknownGift(p))
        => RefusesUnknownGift(p)]_vars

\* A purchase request for gift 2 was refused with BadRequest while gift 1, of
\* a product in stock, is stored and was loaded by the request.
C13_Witness ==
    \E p \in Procs :
        /\ pc[p] = "done"
        /\ req[p].op = "purchase"
        /\ req[p].gift_id = 2
        /\ result[p] = BadRequest
        /\ Len(wl[p]) = 1
        /\ objs[p][wl[p][1]].gift_id = 1
        /\ objs[p][wl[p][1]].product.in_stock_quantity = 1
        /\ RowsOf(wedding_gift, 2) = <<>>

\* --------------------------------------------------------------------- C14
\* C14: a remove-gift request naming a gift identity that has no stored row
\* fails with an Unknown-Gift error (BadRequest "Unknown gift ID") and
\* deletes nothing: all gift rows and product rows are unchanged.
C14_RemoveOfUnknownGiftRefused ==
    [][\A p \in Procs :
        (Acts(p) /\ req'[p].op = "remove" /\ NamesUnknownGift(p))
        => /\ RefusesUnknownGift(p)
           /\ removed' = removed
           /\ pc'[p] = "done" => wl'[p] = wl[p]]_vars

\* A remove request for gift 2 was refused with BadRequest; the one stored
\* gift, which it loaded, is still in the table and in its list.
C14_Witness ==
    \E p \in Procs :
        /\ pc[p] = "done"
        /\ req[p].op = "remove"
        /\ req[p].gift_id = 2
        /\ result[p] = BadRequest
        /\ Len(wl[p]) = 1
        /\ RowsOf(wedding_gift, 1) # <<>>
        /\ RowsOf(wedding_gift, 2) = <<>>

\* --------------------------------------------------------------------- C15
\* purchase_gift(target) on the caller's list does what purchase() on the
\* first member with target's gift identity does, and raises and changes
\* nothing when there is no such member.
PurchasesByIdentity(heap, list, target) ==
    LET r == WeddingList_purchase_gift(heap, list, target, products,
                                       wedding_gift)
        same == FoundGift(heap, list, heap[target].gift_id)
    IN  IF same # <<>>
        THEN LET g == GiftItem_purchase(heap[same[1]], products, wedding_gift)
             IN  /\ r.raised = g.raised
                 /\ r.heap = [heap EXCEPT ![same[1]] = g.gift]
                 /\ r.products = g.products
                 /\ r.wedding_gift = g.wedding_gift
        ELSE /\ r.raised = "ValueError"
             /\ r.heap = heap
             /\ r.products = products
             /\ r.wedding_gift = wedding_gift

\* C15: WeddingList.purchase_gift(target) purchases the member whose gift
\* identity equals target's gift identity (also when target is a separately
\* loaded GiftItem object with the same gift_id), and when no member has that
\* identity it raises an error and changes no stock and no purchased flag.
C15_PurchaseGiftMatchesByIdentity ==
    \A target \in DOMAIN objs[Caller] :
        PurchasesByIdentity(objs[Caller], wl[Caller], target)

\* --------------------------------------------------------------------- C16
\* C16: after any sequence of WeddingList.append, WeddingList.remove,
\* GiftItem.get_new_gift_item and GiftItem.remove calls, every GiftItem that
\* is a member of a WeddingList has a row in the wedding_gift table.
C16_MembersHaveRows ==
    \A p \in Procs : \A i \in 1..Len(wl[p]) :
        RowsOf(wedding_gift, objs[p][wl[p][i]].gift_id) # <<>>

\* --------------------------------------------------------------------- C17
\* A load of the stored rows that raised, or returned gifts, is what the
\* tables call for.
LoadedAsStored(raised, gifts) ==
    IF \E k \in 1..Len(wedding_gift) :
            RowsOf(products, wedding_gift[k].product_id) = <<>>
    THEN raised = UnknownProduct
    ELSE /\ raised = "none"
         /\ Len(gifts) = Len(wedding_gift)
         /\ \A k \in 1..Len(wedding_gift) :
               /\ gifts[k].gift_id = wedding_gift[k].rowid
               /\ gifts[k].product.product_id = wedding_gift[k].product_id
               /\ gifts[k].purchased = (wedding_gift[k].purchased > 0)

\* C17: WeddingList.get_wedding_gifts fails with UnknownProduct whenever some
\* wedding_gift row references a product identity that has no row in the
\* products table, and otherwise returns one GiftItem per gift row, in row
\* order, with purchased true exactly when the stored flag is greater than 0.
C17_LoadFailsOnMissingProduct ==
    /\ LET l == WeddingGifts(products, wedding_gift)
       IN  LoadedAsStored(l.raised, l.gifts)
    /\ \A p \in Procs :
          (pc[p] \in {"handler", "done"} /\ req[p].op = "report")
          => LoadedAsStored(IF result[p] = UnknownProduct
                            THEN UnknownProduct ELSE "none",
                            [i \in 1..Len(wl[p]) |-> objs[p][wl[p][i]]])

\* A load failed with UnknownProduct at the second of two stored rows, after
\* building the GiftItem of the first, whose product exists.
C17_Witness ==
    \E p \in Procs :
        /\ pc[p] = "done"
        /\ req[p].op = "report"
        /\ result[p] = UnknownProduct
        /\ Len(wedding_gift) = 2
        /\ RowsOf(products, wedding_gift[1].product_id) # <<>>
        /\ RowsOf(products, wedding_gift[2].product_id) = <<>>
        /\ Len(wl[p]) = 1

\* --------------------------------------------------------------------- C18
\* C18: for every catalogue product, the price of the Product rehydrated
\* from the store after bootstrap (init_db followed by get_gift_repository)
\* is the same integer minor-unit amount that the Product constructor parsed
\* from the catalogue description (1250 for "12.50GBP"); the stored and
\* reloaded price is an integer, never a fractional value.
C18_PriceSurvivesBootstrap ==
    (gift_repo # NoRepository /\ gift_repo.raised = "none"
        /\ Len(products) = Len(gift_repo.products))
    => \A k \in 1..Len(gift_repo.products) :
          LET parsed == gift_repo.products[k]
              reloaded == get_product_by_id(products, parsed.product_id)
          IN  /\ reloaded.raised = "none"
              /\ reloaded.product.price.hundredths = 0
              /\ reloaded.product.price.units = parsed.price

\* --------------------------------------------------------------------- C19
\* The value of a string of decimal digits, most significant digit first.
RECURSIVE Decimal(_)
Decimal(digits) ==
    IF digits = <<>> THEN 0
    ELSE DigitValue(Head(digits)) * 10 ^ (Len(digits) - 1)
            + Decimal(Tail(digits))

\* str is <whole>.<two digits> followed by the currency code: one or more
\* digits, a point, two digits, the code, and nothing else.
IsTwoDigitPrice(str, code) ==
    LET n == Len(str) - 6
    IN  /\ n >= 1
        /\ \A k \in 1..n : str[k] \in Digits
        /\ str[n + 1] = "."
        /\ str[n + 2] \in Digits
        /\ str[n + 3] \in Digits
        /\ SubSeq(str, n + 4, n + 6) = code

\* whole * 100 + fractional of such a string.
MinorUnits(str) ==
    Decimal(SubSeq(str, 1, Len(str) - 6)) * 100
        + Decimal(SubSeq(str, Len(str) - 4, Len(str) - 3))

\* r is what constructing a Product from the description gave.
NormalizesPrice(from_dict, r) ==
    /\ "int_price" \in DOMAIN from_dict
       => /\ r.raised = "none"
          /\ r.products[1].price = from_dict.int_price
    /\ ("int_price" \notin DOMAIN from_dict /\ "price" \in DOMAIN from_dict
            /\ IsTwoDigitPrice(from_dict.price, GBP))
       => /\ r.raised = "none"
          /\ r.products[1].price = MinorUnits(from_dict.price)
    /\ {"int_price", "price"} \cap DOMAIN from_dict = {}
       => r.raised = "Exception"

HasAcceptedPrice(from_dict) ==
    \/ "int_price" \in DOMAIN from_dict
    \/ /\ "price" \in DOMAIN from_dict
       /\ \E code \in {GBP, <<"U", "S", "D">>} :
             IsTwoDigitPrice(from_dict.price, code)

\* C20: a product description whose price is neither an integer minor-unit
\* field nor a string of the accepted form <whole>.<two digits>CUR (for
\* example a string with one or three fractional digits, or with no numeric
\* part) is rejected with a Construction/Data error before any Product is
\* returned; no Product object with missing or wrongly computed price is
\* ever produced.  (Stated for descriptions that have fields; the empty
\* description is constructed as no description at all.)
C20_MalformedPriceRejected ==
    (gift_repo # NoRepository /\ Len(catalogue) = 1
        /\ catalogue[1] # EmptyDict)
    => /\ ~HasAcceptedPrice(catalogue[1]) => gift_repo.raised # "none"
       /\ gift_repo.raised = "none"
          => /\ gift_repo.products[1] # EmptyDict
             /\ gift_repo.products[1].price =
                    IF "int_price" \in DOMAIN catalogue[1]
                    THEN catalogue[1].int_price
                    ELSE MinorUnits(catalogue[1].price)

\* --------------------------------------------------------------------- C21
\* The products table holds one row for every description of the catalogue,
\* under the description's identity, name and brand, and no other row.
OneRowPerDescription ==
    /\ Len(products) = Len(catalogue)
    /\ \A k \in 1..Len(catalogue) :
          \E j \in 1..Len(products) :
              /\ products[j].rowid = catalogue[k].id
              /\ products[j].name = catalogue[k].name
              /\ products[j].brand = catalogue[k].brand

\* A call of init_db on a store that has the schema changes no row.
InitDbKeepsRows ==
    ("products" \in tables /\ result' # result
        /\ result'[Caller] \in {"created", "skipped"})
    => UNCHANGED <<products, wedding_gift>>

\* C21: init_db imports the catalogue only when the products table does not
\* exist: calling init_db on a store that already has the schema changes no
\* row, so after any number of init_db calls interleaved with add, purchase
\* and remove operations the products table holds exactly one row per
\* catalogue description, and stock and gift rows are not reset.
C21_InitDbImportsOnce ==
    /\ []("products" \in tables => OneRowPerDescription)
    /\ [][InitDbKeepsRows]_vars

\* The caller's last call was an init_db that found the schema, on a store
\* that held a purchased gift, a product whose stock is below the imported
\* quantity, and the rowid of a removed gift.
C21_Witness ==
    /\ result[Caller] = "skipped"
    /\ removed # {}
    /\ \E j \in 1..Len(wedding_gift) : wedding_gift[j].purchased = 1
    /\ \E k \in 1..Len(products) :
          products[k].in_stock_quantity < stock0[products[k].rowid]

\* --------------------------------------------------------------------- C22
\* What init_db raises when a description of the catalogue is malformed.
InitDbErrors == {"Exception", "AttributeError", "KeyError", "IntegrityError"}

\* C22: if the catalogue contains a malformed product description, init_db
\* fails and leaves the store without the schema and without any product row
\* (schema creation is aborted, no partial data), so that a later init_db
\* with a valid catalogue still performs the import.
C22_FailedImportLeavesNoSchema ==
    result[Caller] \in InitDbErrors
    => /\ products = <<>>
       /\ ~HasProductsTable(tables)

\* --------------------------------------------------------------------- C23
\* A step leaves every product row where it is, with its name, brand and
\* price, and takes from its in_stock_quantity one unit for every
\* Product.purchase() of it that succeeds in the step.
ProductRowsChangeOnlyByPurchase ==
    /\ Len(products') = Len(products)
    /\ \A k \in 1..Len(products) :
          products'[k] =
              [products[k] EXCEPT !.in_stock_quantity =
                  @ - (sold'[products[k].rowid] - sold[products[k].rowid])]

\* C23: after bootstrap the set of product rows is fixed: add-gift and
\* remove-gift operations leave every product row unchanged, and the only
\* change any operation makes to a product row is a decrement of
\* in_stock_quantity by exactly one per successful purchase; no operation
\* deletes or inserts a product or changes its name, brand or price.
C23_ProductRowsFixed == [][ProductRowsChangeOnlyByPurchase]_vars

\* --------------------------------------------------------------------- C24
Last(list) == list[Len(list)]

Front(list) == SubSeq(list, 1, Len(list) - 1)

\* The caller's last change to its list was append(x), and this step is
\* remove(x): x is the last member, and the list before the append is the
\* list without its last member.
RemovesTheAppended ==
    /\ req[Caller].op = "append"
    /\ wl[Caller] # <<>>
    /\ req'[Caller].op = "remove"
    /\ wl'[Caller] = ListRemove(wl[Caller], Last(wl[Caller]))

\* C24 as stated: for every WeddingList and GiftItem x, append(x) followed by
\* remove(x) leaves the list's contents and order equal to what they were
\* before the append (an empty list becomes [x] and then [] again).
C24_AppendThenRemoveRestores ==
    [][RemovesTheAppended => wl'[Caller] = Front(wl[Caller])]_vars

\* C24, amended: for every WeddingList and every GiftItem x that is not
\* already a member of it, append(x) followed by remove(x) leaves the list's
\* contents and order equal to what they were before the append.
C24_AppendThenRemoveRestoresNonMember ==
    [][(RemovesTheAppended
            /\ Index(Front(wl[Caller]), Last(wl[Caller])) = 0)
        => wl'[Caller] = Front(wl[Caller])]_vars

\* x has just been appended to a list that held another gift and not x.
C24_Witness ==
    /\ req[Caller].op = "append"
    /\ Len(wl[Caller]) >= 2
    /\ Index(Front(wl[Caller]), Last(wl[Caller])) = 0

\* --------------------------------------------------------------------- C25
\* The units of product i consumed since the import.
UnitsConsumed(i) == stock0[i] - Stock(products)[i]

\* The gifts marked purchased that reference product i: the rows of the
\* product with the flag set, and every gift that was purchased and whose row
\* is deleted (a deleted row no longer tells its product, so such a gift is
\* counted for every product).
MarkedGiftsOf(i) ==
    {wedding_gift[j].rowid :
        j \in {k \in 1..Len(wedding_gift) :
                  /\ wedding_gift[k].product_id = i
                  /\ wedding_gift[k].purchased > 0}}
        \cup (removed \cap decremented)

\* C25: each gift consumes at most one unit of stock: a purchase request for
\* a gift whose purchased flag is already true does not decrement the
\* product's stock again, so for every product the number of units consumed
\* never exceeds the number of distinct gifts referencing it that have been
\* marked purchased.
C25_GiftConsumesAtMostOneUnit ==
    "products" \in tables
    => \A i \in DOMAIN stock0 :
          UnitsConsumed(i) <= Cardinality(MarkedGiftsOf(i))

\* --------------------------------------------------------------------- C26
\* A purchase request commits its stock decrement (Product.purchase returns)
\* only while the row of its gift exists.
DecrementNeedsRow ==
    \A p \in Procs :
        (pc[p] = "handler" /\ pc'[p] = "mark")
        => RowsOf(wedding_gift, req[p].gift_id) # <<>>

\* A purchase request that ends without error leaves the row of its gift
\* marked purchased.
PurchaseEndsMarked ==
    \A p \in Procs :
        (pc[p] = "mark" /\ pc'[p] = "done" /\ result'[p] = "ok")
        => \E j \in 1..Len(wedding_gift') :
              /\ wedding_gift'[j].rowid = req[p].gift_id
              /\ wedding_gift'[j].purchased = 1

\* C26: once a gift's row has been deleted, no operation on that gift changes
\* any product's stock: in every interleaving of a remove-gift request and a
\* purchase-gift request for the same gift, a stock decrement is committed
\* only if the gift's row still exists and ends marked purchased (stock is
\* never consumed for a gift that no longer exists).
C26_NoDecrementForDeletedGift ==
    [][DecrementNeedsRow /\ PurchaseEndsMarked]_vars

====
